---- MODULE Spec2Model ----
(***************************************************************************)
(* Static analysis of JAF sources (src/tools/ainedit/jaf_static_analysis.c) *)
(* as a state machine: the parse-time struct definer, then the three passes *)
(* of jaf_static_analyze over the top-level block, one top-level item per   *)
(* step.                                                                    *)
(***************************************************************************)
EXTENDS Integers, Sequences, FiniteSets, TLC

\* ------------------------------------------------------------------ bounds
\* nesting depth of the statements generated inside a function body
MaxDepth == 2
\* integer literals of the generated expressions are 0..MaxLit
MaxLit == 2
\* a var_no the parser left unset reads as any of -1..MaxJunk
MaxJunk == 1
\* struct names available to the struct definer: "S1".."S<MaxNames>"
MaxNames == 3

\* ------------------------------------------------------------ syntax tree
\* struct jaf_expression: k is the expression type, i the literal's value,
\* s the identifier, ops the operands.  k = "null" is the NULL pointer.
Ex(k, i, s, ops) == [k |-> k, i |-> i, s |-> s, ops |-> ops]
NoExpr == Ex("null", 0, "", <<>>)
EInt(i) == Ex("int", i, "", <<>>)
EFloat(i) == Ex("float", i, "", <<>>)
EStr(s) == Ex("string", 0, s, <<>>)
EId(s) == Ex("ident", 0, s, <<>>)
EAdd(a, b) == Ex("add", 0, "", <<a, b>>)

\* struct jaf_block_item (with the jaf_type_specifier of a declaration
\* inlined: ty, tname, hasdef, def).  name = "" is the NULL name pointer,
\* kind = "NULL" the NULL item pointer, kind = "BLOCK" a struct jaf_block.
Nd(kind) ==
    [kind |-> kind, name |-> "", ty |-> "none", tname |-> "", hasdef |-> FALSE,
     def |-> <<>>, expr |-> NoExpr, expr2 |-> NoExpr, params |-> <<>>, kids |-> <<>>]
Null == Nd("NULL")
Decl(name, ty, tname, init) ==
    [Nd("DECLARATION") EXCEPT !.name = name, !.ty = ty, !.tname = tname, !.expr = init]
StructDecl(name, tname, members) ==
    [Nd("DECLARATION") EXCEPT !.name = name, !.ty = "struct", !.tname = tname,
                              !.hasdef = TRUE, !.def = members]
FunDecl(name, ty, tname, params, body) ==
    [Nd("FUNDECL") EXCEPT !.name = name, !.ty = ty, !.tname = tname,
                          !.params = params, !.kids = body]
Labeled(s) == [Nd("LABELED") EXCEPT !.kids = <<s>>]
Compound(items) == [Nd("COMPOUND") EXCEPT !.kids = items]
ExprStmt(e) == [Nd("EXPRESSION") EXCEPT !.expr = e]
If(e, a, b) == [Nd("IF") EXCEPT !.expr = e, !.kids = <<a, b>>]
Switch(e, items) == [Nd("SWITCH") EXCEPT !.expr = e, !.kids = items]
While(e, s) == [Nd("WHILE") EXCEPT !.expr = e, !.kids = <<s>>]
DoWhile(e, s) == [Nd("DO_WHILE") EXCEPT !.expr = e, !.kids = <<s>>]
Block(items) == [Nd("BLOCK") EXCEPT !.kids = items]
For(init, e, after, s) ==
    [Nd("FOR") EXCEPT !.expr = e, !.expr2 = after, !.kids = <<Block(init), s>>]
Return(e) == [Nd("RETURN") EXCEPT !.expr = e]
Case(e, s) == [Nd("CASE") EXCEPT !.expr = e, !.kids = <<s>>]
Default(s) == [Nd("DEFAULT") EXCEPT !.kids = <<s>>]
Goto == Nd("GOTO")
Continue == Nd("CONTINUE")
Break == Nd("BREAK")

\* A path names a node: the index of a top-level item, then child selectors:
\* i for kids[i], 10 + i for params[i], 20 + i for def[i].
KidSel(i) == i
ParamSel(i) == 10 + i
DefSel(i) == 20 + i
IsDefSel(c) == c > 20
Child(n, c) ==
    IF c > 20 THEN n.def[c - 20]
    ELSE IF c > 10 THEN n.params[c - 10]
    ELSE n.kids[c]

RECURSIVE NodeAtN(_, _)
NodeAtN(n, p) == IF p = <<>> THEN n ELSE NodeAtN(Child(n, Head(p)), Tail(p))
NodeIn(items, p) == NodeAtN(items[Head(p)], Tail(p))

RECURSIVE ConcatAll(_)
ConcatAll(ss) == IF ss = <<>> THEN <<>> ELSE Head(ss) \o ConcatAll(Tail(ss))
Range(s) == {s[i] : i \in DOMAIN s}

\* The paths of a tree, in textual (depth-first, left-to-right) order.
RECURSIVE PreOrder(_, _)
PreOrder(n, p) ==
    <<p>> \o ConcatAll([i \in DOMAIN n.def |-> PreOrder(n.def[i], Append(p, DefSel(i)))])
          \o ConcatAll([i \in DOMAIN n.params |-> PreOrder(n.params[i], Append(p, ParamSel(i)))])
          \o ConcatAll([i \in DOMAIN n.kids |-> PreOrder(n.kids[i], Append(p, KidSel(i)))])
PathsOf(items) == ConcatAll([i \in DOMAIN items |-> PreOrder(items[i], <<i>>)])

IsPrefix(a, b) == Len(a) <= Len(b) /\ SubSeq(b, 1, Len(a)) = a
IndexOf(seq, x) == CHOOSE i \in DOMAIN seq : seq[i] = x

\* ------------------------------------------------------------ collaborators
\* encode_text_to_input_format: re-encodes an identifier for the ain file.
Encode(text) == "sjis:" \o text

\* ERROR(...): reports and abandons the whole analysis; nothing after it runs.
ERROR(s, e, p) == [s EXCEPT !.err = e, !.errAt = p]
Failed(s) == s.err # "none"

\* struct ain: the struct table is indexed from 0, structs[k] has struct_no k-1.
ain_get_struct(structs, u) == \E k \in DOMAIN structs : structs[k].name = u
ain_get_struct_no(structs, u) ==
    IF ain_get_struct(structs, u)
    THEN (CHOOSE k \in DOMAIN structs : structs[k].name = u) - 1
    ELSE -1
NewStruct(u) == [name |-> u, nr_members |-> 0, members |-> <<>>]
ain_add_struct(structs, u) == Append(structs, NewStruct(u))

\* ------------------------------------------------------------ struct definer
\* The struct_no that jaf_define_struct writes back: ain_add_struct's result,
\* the index of the new entry.
NewStructNo(structs) == Len(structs)

\* jaf_define_struct without its ain_get_struct test
IsRedefinitionNever(structs, u) == FALSE

\* Whether jaf_define_struct refuses the name u.
IsRedefinition(structs, u) == ain_get_struct(structs, u)

RECURSIVE jaf_define_struct(_, _, _), define_members(_, _, _, _), define_types(_, _, _)
jaf_define_struct(s, n, p) ==
    IF Failed(s) THEN s
    ELSE IF n.tname = "" THEN ERROR(s, "AnonymousNotSupported", p)
    ELSE IF IsRedefinition(s.structs, Encode(n.tname))
         THEN ERROR(s, "DuplicateDefinition", p)
    ELSE LET s1 == [s EXCEPT !.structs = ain_add_struct(@, Encode(n.tname)),
                            !.sno = (p :> NewStructNo(s.structs)) @@ @]
         IN  IF ~n.hasdef THEN ERROR(s1, "Segfault", p)   \* type->def is NULL
             ELSE define_members(s1, n, p, 1)

define_members(s, n, p, i) ==
    IF Failed(s) \/ i > Len(n.def) THEN s
    ELSE define_members(define_types(s, n.def[i], Append(p, DefSel(i))), n, p, i + 1)

define_types(s, d, p) ==
    IF Failed(s) THEN s
    ELSE IF d.kind = "NULL" THEN ERROR(s, "DeclIsNull", p)
    ELSE IF d.ty = "none" THEN ERROR(s, "TypeIsNull", p)
    ELSE IF d.ty # "struct" THEN s
    ELSE jaf_define_struct(s, d, p)

\* ------------------------------------------------------------ type encoding
jaf_to_ain_data_type(type) ==
    CASE type = "void" -> "AIN_VOID"
      [] type = "int" -> "AIN_INT"
      [] type = "float" -> "AIN_FLOAT"
      [] type = "string" -> "AIN_STRING"
      [] type = "struct" -> "AIN_STRUCT"
      [] OTHER -> "ERROR"              \* JAF_ENUM, and any other tag

\* jaf_to_ain_type on the type specifier of the declaration at p:
\* the ain_type written, or data = "ERROR".
jaf_to_ain_type(s, p) ==
    [data |-> jaf_to_ain_data_type(s.tag[p]),
     struc |-> IF s.tag[p] = "struct" THEN s.sno[p] ELSE 0]

\* ------------------------------------------------------------ pass 1
\* The test resolve_typedef makes on the result of ain_get_struct_no.
TypedefFound(sno) == sno # 0

resolve_typedef(s, n, p) ==
    LET sno == ain_get_struct_no(s.structs, Encode(n.tname))
        s1 == [s EXCEPT !.resolved = Append(@, p)]
    IN  IF TypedefFound(sno)
        THEN [s1 EXCEPT !.tag[p] = "struct", !.sno[p] = sno]
        ELSE ERROR(s1, "UnresolvedTypedef", p)

\* The members array resolve_decl_types builds: a sequence of ain_variable,
\* or <<"Segfault">> / <<"UnsupportedType">> with the member that failed.
RECURSIVE StructMembers(_, _, _, _, _)
StructMembers(s, n, p, i, acc) ==
    IF i > Len(n.def) THEN [err |-> "none", at |-> p, members |-> acc]
    ELSE LET q == Append(p, DefSel(i))
             t == jaf_to_ain_type(s, q)
         IN  IF n.def[i].name = "" THEN [err |-> "Segfault", at |-> q, members |-> acc]
             ELSE IF t.data = "ERROR"
                  THEN [err |-> "UnsupportedType", at |-> q, members |-> acc]
             ELSE StructMembers(s, n, p, i + 1,
                      Append(acc, [name |-> Encode(n.def[i].name),
                                   data |-> t.data, struc |-> t.struc]))

resolve_decl_types(s, n, p) ==
    LET s1 == IF s.tag[p] = "typedef" THEN resolve_typedef(s, n, p) ELSE s
    IN  IF Failed(s1) THEN s1
        ELSE IF s1.tag[p] # "struct" \/ ~n.hasdef THEN s1
        ELSE IF ~(s1.sno[p] >= 0 /\ s1.sno[p] < Len(s1.structs))
             THEN ERROR(s1, "AssertionFailed", p)
        ELSE LET m == StructMembers(s1, n, p, 1, <<>>)
             IN  IF m.err # "none" THEN ERROR(s1, m.err, m.at)
                 ELSE [s1 EXCEPT !.structs[s1.sno[p] + 1].nr_members = Len(n.def),
                                 !.structs[s1.sno[p] + 1].members = m.members]

RECURSIVE resolve_statement_types(_, _, _), jaf_resolve_types(_, _, _, _, _)
resolve_statement_types(s, n, p) ==
    IF Failed(s) THEN s
    ELSE IF n.kind = "NULL" THEN ERROR(s, "Segfault", p)    \* item->kind of NULL
    ELSE CASE n.kind = "DECLARATION" -> resolve_decl_types(s, n, p)
      [] n.kind = "FUNDECL" ->
            jaf_resolve_types(jaf_resolve_types(s, n.params, p, 10, 1), n.kids, p, 0, 1)
      [] n.kind = "LABELED" -> resolve_statement_types(s, n.kids[1], Append(p, 1))
      [] n.kind = "COMPOUND" -> jaf_resolve_types(s, n.kids, p, 0, 1)
      [] n.kind = "IF" ->
            resolve_statement_types(resolve_statement_types(s, n.kids[1], Append(p, 1)),
                                    n.kids[2], Append(p, 2))
      [] n.kind = "SWITCH" -> jaf_resolve_types(s, n.kids, p, 0, 1)
      [] n.kind \in {"WHILE", "DO_WHILE"} ->
            resolve_statement_types(s, n.kids[1], Append(p, 1))
      [] n.kind = "FOR" ->
            resolve_statement_types(jaf_resolve_types(s, n.kids[1].kids, Append(p, 1), 0, 1),
                                    n.kids[2], Append(p, 2))
      [] n.kind \in {"CASE", "DEFAULT"} ->
            resolve_statement_types(s, n.kids[1], Append(p, 1))
      [] OTHER -> s

\* the loop over block->items, from item i on; off selects kids (0) or params (10)
jaf_resolve_types(s, items, p, off, i) ==
    IF Failed(s) \/ i > Len(items) THEN s
    ELSE jaf_resolve_types(resolve_statement_types(s, items[i], Append(p, off + i)),
                           items, p, off, i + 1)

\* ------------------------------------------------------------ pass 2
\* struct ain_function f = {0}
EmptyFunction ==
    [name |-> "", ret |-> [data |-> "AIN_VOID", struc |-> 0],
     nr_args |-> 0, nr_vars |-> 0, vars |-> <<>>]

\* init_variable: fills the slot being added to s.f.vars and writes var_no back.
init_variable(s, n, p, var_no) ==
    LET t == jaf_to_ain_type(s, p)
    IN  IF t.data = "ERROR" THEN ERROR(s, "UnsupportedType", p)
        ELSE [s EXCEPT !.f.vars = Append(@, [name |-> Encode(n.name),
                                            data |-> t.data, struc |-> t.struc]),
                       !.varno[p] = var_no]

\* the JAF_DECLARATION case of block_item_get_vars
LocalGetVar(s, n, p) ==
    IF n.name = "" THEN s
    ELSE LET s1 == init_variable(s, n, p, s.f.nr_vars)
         IN  IF Failed(s1) THEN s1 ELSE [s1 EXCEPT !.f.nr_vars = @ + 1]

\* the JAF_STMT_IF case with the alternative collected before the consequent
IfBranchesSwapped(n, p) == << <<n.kids[2], Append(p, 2)>>, <<n.kids[1], Append(p, 1)>> >>

\* the JAF_STMT_IF case of block_item_get_vars: the order of its two calls
IfBranches(n, p) == << <<n.kids[1], Append(p, 1)>>, <<n.kids[2], Append(p, 2)>> >>

\* the JAF_FUNDECL case grouped with the statements that declare nothing
NestedFunctionIgnored(s, p) == s

\* the JAF_FUNDECL case of block_item_get_vars
NestedFunction(s, p) == ERROR(s, "NestedFunctionsNotSupported", p)

RECURSIVE block_item_get_vars(_, _, _), block_get_vars(_, _, _, _)
block_item_get_vars(s, n, p) ==
    IF Failed(s) THEN s
    ELSE IF n.kind = "NULL" THEN ERROR(s, "Segfault", p)    \* item->kind of NULL
    ELSE CASE n.kind = "DECLARATION" -> LocalGetVar(s, n, p)
      [] n.kind = "LABELED" -> block_item_get_vars(s, n.kids[1], Append(p, 1))
      [] n.kind = "COMPOUND" -> block_get_vars(s, n.kids, p, 1)
      [] n.kind = "IF" ->
            LET b == IfBranches(n, p)
            IN  block_item_get_vars(block_item_get_vars(s, b[1][1], b[1][2]),
                                    b[2][1], b[2][2])
      [] n.kind = "SWITCH" -> block_get_vars(s, n.kids, p, 1)
      [] n.kind \in {"WHILE", "DO_WHILE"} ->
            block_item_get_vars(s, n.kids[1], Append(p, 1))
      [] n.kind = "FOR" ->
            block_item_get_vars(block_get_vars(s, n.kids[1].kids, Append(p, 1), 1),
                                n.kids[2], Append(p, 2))
      [] n.kind \in {"CASE", "DEFAULT"} ->
            block_item_get_vars(s, n.kids[1], Append(p, 1))
      [] n.kind = "FUNDECL" -> NestedFunction(s, p)
      [] OTHER -> s

block_get_vars(s, items, p, i) ==
    IF Failed(s) \/ i > Len(items) THEN s
    ELSE block_get_vars(block_item_get_vars(s, items[i], Append(p, i)), items, p, i + 1)

\* the loop of function_init_vars over the parameters, from parameter i on
RECURSIVE InitParams(_, _, _, _)
InitParams(s, n, p, i) ==
    IF Failed(s) \/ i > Len(n.params) THEN s
    ELSE IF n.params[i].kind # "DECLARATION" \/ n.params[i].name = ""
         THEN ERROR(s, "AssertionFailed", Append(p, ParamSel(i)))
    ELSE InitParams(init_variable(s, n.params[i], Append(p, ParamSel(i)), i - 1),
                    n, p, i + 1)

function_init_vars(s, n, p) ==
    LET s1 == [s EXCEPT !.f.nr_args = Len(n.params), !.f.nr_vars = Len(n.params)]
    IN  block_get_vars(InitParams(s1, n, p, 1), n.kids, p, 1)

\* ain_add_function: appends the function, returns its index
add_function(s, n, p) ==
    LET t == jaf_to_ain_type(s, p)
        s1 == [s EXCEPT !.f = [EmptyFunction EXCEPT !.name = n.name, !.ret = t]]
        s2 == function_init_vars(s1, n, p)
    IN  IF t.data = "ERROR" THEN ERROR(s, "UnsupportedType", p)
        ELSE IF Failed(s2) THEN s2
        ELSE [s2 EXCEPT !.functions = Append(@, s2.f), !.funcno[p] = Len(s2.functions),
                        !.f = EmptyFunction]

\* ain_add_global: appends the global and returns its storage;
\* var_no = v - ain->globals is its index
add_global(s, n, p) ==
    LET t == jaf_to_ain_type(s, p)
        s1 == [s EXCEPT !.globals = Append(@, [name |-> Encode(n.name),
                                              data |-> "AIN_VOID", struc |-> 0])]
    IN  IF t.data = "ERROR" THEN ERROR(s1, "UnsupportedType", p)
        ELSE [s1 EXCEPT !.globals[Len(s1.globals)].data = t.data,
                        !.globals[Len(s1.globals)].struc = t.struc,
                        !.varno[p] = Len(s.globals)]

\* one iteration of the loop of jaf_process_declarations
jaf_process_declarations(s, n, p) ==
    IF n.name = "" THEN s
    ELSE IF n.kind = "FUNDECL" THEN add_function(s, n, p)
    ELSE add_global(s, n, p)

\* ------------------------------------------------------------ pass 3
\* The bindings an environment and its parents hold, innermost first; a
\* binding [f, v] is the pointer &ain->functions[f].vars[v].
RECURSIVE ChainFrom(_, _)
ChainFrom(envs, k) ==
    IF k = 0 THEN <<>>
    ELSE [i \in 1..Len(envs[k].locals) |->
             envs[k].locals[Len(envs[k].locals) + 1 - i]] \o ChainFrom(envs, k - 1)
Chain(s) == ChainFrom(s.envs, Len(s.envs))
SlotVar(s, b) == s.functions[b.f + 1].vars[b.v + 1]

\* jaf_derive_types: the ain data type of an expression, "ERROR" when it has
\* none (an identifier bound in no environment, operands that disagree).
LookupType(s, name) ==
    LET c == Chain(s)
        hits == {i \in DOMAIN c : SlotVar(s, c[i]).name = Encode(name)}
        g == {i \in DOMAIN s.globals : s.globals[i].name = Encode(name)}
    IN  IF hits # {} THEN SlotVar(s, c[CHOOSE i \in hits : \A j \in hits : i <= j]).data
        ELSE IF g # {} THEN s.globals[CHOOSE i \in g : TRUE].data
        ELSE "ERROR"

RECURSIVE jaf_derive_types(_, _)
jaf_derive_types(s, e) ==
    CASE e.k = "int" -> "AIN_INT"
      [] e.k = "float" -> "AIN_FLOAT"
      [] e.k = "string" -> "AIN_STRING"
      [] e.k = "ident" -> LookupType(s, e.s)
      [] e.k = "add" ->
            LET a == jaf_derive_types(s, e.ops[1])
                b == jaf_derive_types(s, e.ops[2])
            IN  IF a = b /\ a \in {"AIN_INT", "AIN_FLOAT", "AIN_STRING"} THEN a ELSE "ERROR"
      [] OTHER -> "ERROR"

\* jaf_simplify: constant folding, the identity on what does not fold.
RECURSIVE jaf_simplify(_)
jaf_simplify(e) ==
    IF e.k # "add" THEN e
    ELSE LET a == jaf_simplify(e.ops[1])
             b == jaf_simplify(e.ops[2])
         IN  IF a.k = "int" /\ b.k = "int" THEN EInt(a.i + b.i)
             ELSE [e EXCEPT !.ops = <<a, b>>]

\* jaf_check_type: whether the expression has the declared type; a missing
\* expression agrees with void only.
jaf_check_type(s, e, type) ==
    IF e.k = "null" THEN type = "void"
    ELSE jaf_derive_types(s, e) = jaf_to_ain_data_type(type)

\* The expression pointer of a site: <<p, 1>> is the expression of the item
\* at p (init, test, expr), <<p, 2>> the after-expression of a for loop.
ExprAt(s, site) == IF site \in DOMAIN s.exprs THEN s.exprs[site] ELSE NoExpr

analyze_expression(s, site) ==
    IF Failed(s) \/ ExprAt(s, site).k = "null" THEN s
    ELSE IF jaf_derive_types(s, s.exprs[site]) = "ERROR"
         THEN ERROR(s, "DeriveTypesError", site[1])
    ELSE [s EXCEPT !.exprs[site] = jaf_simplify(@), !.cnt[site] = @ + 1]

\* jaf_to_initval: data_type = "ERROR" is ERROR("Initval is not constant")
jaf_to_initval(dst, expr) ==
    CASE expr.k = "int" -> [dst EXCEPT !.data_type = "AIN_INT", !.i = expr.i]
      [] expr.k = "float" -> [dst EXCEPT !.data_type = "AIN_FLOAT", !.i = expr.i]
      [] expr.k = "string" -> [dst EXCEPT !.data_type = "AIN_STRING", !.s = expr.s]
      [] OTHER -> [dst EXCEPT !.data_type = "ERROR"]

\* an initval whose global_index is left at zero
NewInitvalNoIndex(var_no) == [global_index |-> 0, data_type |-> "AIN_VOID", i |-> 0, s |-> ""]

\* struct ain_initval init = { .global_index = decl->var_no }
NewInitval(var_no) == [global_index |-> var_no, data_type |-> "AIN_VOID", i |-> 0, s |-> ""]

analyze_global_declaration(s, n, p) ==
    IF ExprAt(s, <<p, 1>>).k = "null" THEN s
    ELSE LET s1 == analyze_expression(s, <<p, 1>>)
         IN  IF Failed(s1) THEN s1
             ELSE IF ~jaf_check_type(s1, s1.exprs[<<p, 1>>], s1.tag[p])
                  THEN ERROR(s1, "TypeMismatch", p)
             ELSE LET init == jaf_to_initval(NewInitval(s1.varno[p]), s1.exprs[<<p, 1>>])
                  IN  IF init.data_type = "ERROR" THEN ERROR(s1, "InitvalNotConstant", p)
                      ELSE [s1 EXCEPT !.initvals = Append(@, init)]

\* env is the innermost environment, s.envs[Len(s.envs)]
analyze_local_declaration(s, n, p) ==
    LET env == s.envs[Len(s.envs)]
    IN  IF ~(env.func_no >= 0 /\ env.func_no < Len(s.functions))
             THEN ERROR(s, "AssertionFailed", p)
        ELSE IF ~(s.varno[p] >= 0 /\ s.varno[p] < s.functions[env.func_no + 1].nr_vars)
             THEN ERROR(s, "AssertionFailed", p)
        ELSE [s EXCEPT !.envs[Len(s.envs)].locals =
                            Append(@, [f |-> env.func_no, v |-> s.varno[p]]),
                       !.bound = Append(@, [decl |-> p, f |-> env.func_no, v |-> s.varno[p]])]

\* free(env->locals); free(env): the innermost environment is released
FreeEnv(s) == IF Failed(s) THEN s ELSE [s EXCEPT !.envs = SubSeq(@, 1, Len(@) - 1)]

RECURSIVE analyze_statement(_, _, _), jaf_analyze_block(_, _, _, _), analyze_block(_, _, _),
          analyze_function(_, _, _)
analyze_function(s, n, p) ==
    IF ~(s.funcno[p] < Len(s.functions)) THEN ERROR(s, "AssertionFailed", p)
    ELSE LET fun == s.functions[s.funcno[p] + 1]
             funenv == [locals |-> [i \in 1..fun.nr_args |-> [f |-> s.funcno[p], v |-> i - 1]],
                        func_no |-> s.funcno[p], fundecl |-> p]
         IN  FreeEnv(jaf_analyze_block([s EXCEPT !.envs = Append(@, funenv)], n.kids, p, 1))

\* analyze_block on the items of the block whose items have the paths p \o <<i>>
analyze_block(s, items, p) ==
    IF Failed(s) THEN s ELSE
    LET env == IF s.envs = <<>> THEN [func_no |-> -1, fundecl |-> <<>>]
               ELSE s.envs[Len(s.envs)]
        blockenv == [locals |-> <<>>, func_no |-> env.func_no, fundecl |-> env.fundecl]
    IN  FreeEnv(jaf_analyze_block([s EXCEPT !.envs = Append(@, blockenv)], items, p, 1))

analyze_statement(s0, n, p) ==
    IF Failed(s0) \/ n.kind = "NULL" THEN s0
    ELSE LET s == [s0 EXCEPT !.seen = (p :> Range(Chain(s0))) @@ @] IN
      CASE n.kind = "DECLARATION" ->
            IF s.envs # <<>> THEN analyze_local_declaration(s, n, p)
            ELSE analyze_global_declaration(s, n, p)
      [] n.kind = "FUNDECL" -> analyze_function(s, n, p)
      [] n.kind = "LABELED" -> analyze_statement(s, n.kids[1], Append(p, 1))
      [] n.kind = "COMPOUND" -> analyze_block(s, n.kids, p)
      [] n.kind = "EXPRESSION" -> analyze_expression(s, <<p, 1>>)
      [] n.kind = "IF" ->
            analyze_statement(
                analyze_statement(analyze_expression(s, <<p, 1>>), n.kids[1], Append(p, 1)),
                n.kids[2], Append(p, 2))
      [] n.kind = "SWITCH" -> analyze_block(analyze_expression(s, <<p, 1>>), n.kids, p)
      [] n.kind \in {"WHILE", "DO_WHILE"} ->
            analyze_statement(analyze_expression(s, <<p, 1>>), n.kids[1], Append(p, 1))
      [] n.kind = "FOR" ->
            analyze_statement(
                analyze_expression(
                    analyze_expression(analyze_block(s, n.kids[1].kids, Append(p, 1)),
                                       <<p, 1>>),
                    <<p, 2>>),
                n.kids[2], Append(p, 2))
      [] n.kind = "RETURN" ->
            LET s1 == analyze_expression(s, <<p, 1>>)
            IN  IF Failed(s1) THEN s1
                ELSE IF s1.envs = <<>> THEN ERROR(s1, "Segfault", p)   \* env->fundecl is NULL
                ELSE IF ~jaf_check_type(s1, ExprAt(s1, <<p, 1>>),
                                        s1.tag[s1.envs[Len(s1.envs)].fundecl])
                     THEN ERROR(s1, "TypeMismatch", p)
                ELSE s1
      [] n.kind \in {"CASE", "DEFAULT"} -> analyze_statement(s, n.kids[1], Append(p, 1))
      [] OTHER -> s

jaf_analyze_block(s, items, p, i) ==
    IF Failed(s) \/ i > Len(items) THEN s
    ELSE jaf_analyze_block(analyze_statement(s, items[i], Append(p, i)), items, p, i + 1)

\* ------------------------------------------------------------ inputs
G0 == Decl("g0", "int", "", NoExpr)
G1 == Decl("g1", "int", "", EInt(1))
F0 == FunDecl("f0", "void", "", <<>>, <<>>)
ParamP == Decl("p", "int", "", NoExpr)
DeclX == Decl("x", "int", "", NoExpr)
DeclY == Decl("y", "int", "", EAdd(EInt(1), EInt(2)))
UseX == ExprStmt(EId("x"))
UseG == ExprStmt(EAdd(EId("g0"), EInt(1)))
TestG == EId("g0")
\* a declaration that only introduces a type: it declares no name
LocalStruct == StructDecl("", "L", <<Decl("m", "int", "", NoExpr)>>)
StructV == StructDecl("", "V", <<Decl("k", "int", "", NoExpr)>>)

Leaves ==
    {DeclX, DeclY, LocalStruct, UseX, UseG, Return(EInt(1)), Break,
     FunDecl("h", "void", "", <<>>, <<>>)}

CoreWrap(s) ==
    {Compound(<<s>>), Compound(<<DeclX, s>>), If(TestG, s, DeclY), While(TestG, s),
     For(<<s>>, TestG, NoExpr, UseX)}
AllWrap(s) ==
    CoreWrap(s) \cup
    {Labeled(s), Compound(<<s, UseX>>), If(TestG, s, Null), If(TestG, Continue, s),
     Switch(TestG, <<Case(EAdd(EInt(1), EInt(1)), s)>>), Switch(TestG, <<Default(s), Goto>>),
     DoWhile(TestG, s), For(<<DeclX>>, NoExpr, EAdd(EInt(1), EInt(0)), s)}

RECURSIVE Inner(_)
Inner(d) == IF d = 0 THEN Leaves
            ELSE Leaves \cup UNION {CoreWrap(s) : s \in Inner(d - 1)}
Stmts == Leaves \cup UNION {AllWrap(s) : s \in Inner(MaxDepth - 1)}
Bodies == {<<s>> : s \in Stmts} \cup {<<s, t>> : s \in Stmts, t \in {UseX, DeclY}}

BodyPrograms ==
    {<<G0, FunDecl("f", "int", "", ps, b)>> : ps \in {<<>>, <<ParamP>>}, b \in Bodies}

Lits == 0..MaxLit
Inits ==
    {NoExpr, EStr("a"), EId("g0"), EAdd(EInt(1), EStr("a"))}
    \cup {EInt(a) : a \in Lits} \cup {EFloat(a) : a \in Lits}
    \cup {EAdd(EInt(a), EInt(b)) : a \in Lits, b \in Lits}
    \cup {EAdd(EInt(a), EId("g0")) : a \in Lits}
    \cup {EAdd(EAdd(EInt(a), EInt(b)), EInt(1)) : a \in Lits, b \in Lits}
    \cup {EAdd(EFloat(a), EFloat(b)) : a \in Lits, b \in Lits}
GlobalPrograms ==
    {pre \o <<Decl("g", ty, "", init)>> \o post :
        pre \in {<<G0>>, <<F0, G0>>, <<StructV, G0>>, <<G0, G1, F0>>},
        ty \in {"int", "float", "string"}, init \in Inits,
        post \in {<<>>, <<G1>>}}

StructS(member) == StructDecl("", "S", <<Decl("a", "int", "", NoExpr), member>>)
Members ==
    {Decl("b", "float", "", NoExpr), Decl("next", "typedef", "S", NoExpr),
     Decl("e", "enum", "", NoExpr),
     StructDecl("in", "T", <<Decl("c", "typedef", "S", NoExpr)>>),
     StructDecl("", "T", <<Decl("c", "int", "", NoExpr)>>)}
TypeUses(ty, tn) ==
    {Decl("g", ty, tn, NoExpr),
     FunDecl("f", ty, tn, <<>>, <<>>),
     FunDecl("f", "void", "", <<Decl("q", ty, tn, NoExpr)>>, <<>>),
     FunDecl("f", "void", "", <<>>, <<Decl("v", ty, tn, NoExpr)>>),
     FunDecl("f", "void", "", <<ParamP>>, <<While(EId("p"), Compound(<<Decl("v", ty, tn, NoExpr)>>))>>),
     FunDecl("f", "int", "", <<>>, <<FunDecl("h", ty, tn, <<>>, <<>>)>>),
     FunDecl("f", "int", "", <<>>, <<Decl("v", ty, tn, NoExpr), FunDecl("h", "void", "", <<>>, <<>>)>>)}
TypePrograms ==
    {sd \o <<u>> \o post :
        sd \in {<<StructS(m), StructV>> : m \in Members} \cup
               {<<StructV, StructS(m)>> : m \in Members} \cup {<<StructV>>, <<>>},
        u \in UNION {TypeUses(ty[1], ty[2]) :
                 ty \in {<<"typedef", "S">>, <<"typedef", "V">>, <<"typedef", "U">>,
                         <<"enum", "">>, <<"string", "">>}},
        post \in {<<>>, <<F0>>}}

ReturnPrograms ==
    {<<G0, FunDecl("f", rt, "", ps, b)>> :
        rt \in {"void", "int", "string"}, ps \in {<<>>, <<ParamP>>},
        b \in UNION {{<<Return(e)>>, <<Compound(<<DeclX, Return(e)>>)>>,
                      <<Switch(e, <<Case(e, Compound(<<While(e, Return(e))>>))>>)>>} :
                     e \in {NoExpr, EInt(1), EStr("a"), EId("p"), EId("zz"),
                            EAdd(EInt(1), EInt(2))}}}

\* ------------------------------------------------------------ state
VARIABLES
    prog,       \* the top-level block (struct jaf_block), as parsed
    pass,       \* "parse", "resolve", "declare", "analyze", "done"
    idx,        \* the loop index of the running pass over the top-level block
    err, errAt, \* the fatal error that ended the analysis, and the node it was raised at
    structs, functions, globals, initvals,     \* struct ain
    tag, sno,   \* type->type and type->struct_no of the declaration at a path
    varno, funcno,                             \* decl.var_no, decl.func_no
    exprs,      \* the expression each expression pointer holds
    envs,       \* the heap-allocated struct jaf_env records, outermost first
    cnt,        \* history: how often each expression was derived and simplified
    seen,       \* history: the bindings in the environment chain at each statement
    bound,      \* history: the bindings analyze_local_declaration added
    resolved    \* history: the declarations resolve_typedef was called on

vars == <<prog, pass, idx, err, errAt, structs, functions, globals, initvals,
          tag, sno, varno, funcno, exprs, envs, cnt, seen, bound, resolved>>

Cur ==
    [structs |-> structs, functions |-> functions, globals |-> globals,
     initvals |-> initvals, f |-> EmptyFunction, tag |-> tag, sno |-> sno,
     varno |-> varno, funcno |-> funcno, exprs |-> exprs, envs |-> envs, cnt |-> cnt,
     seen |-> seen, bound |-> bound, resolved |-> resolved, err |-> err, errAt |-> errAt]

Commit(s) ==
    /\ structs' = s.structs /\ functions' = s.functions /\ globals' = s.globals
    /\ initvals' = s.initvals /\ tag' = s.tag /\ sno' = s.sno /\ varno' = s.varno
    /\ funcno' = s.funcno /\ exprs' = s.exprs /\ envs' = s.envs /\ cnt' = s.cnt
    /\ seen' = s.seen /\ bound' = s.bound /\ resolved' = s.resolved
    /\ err' = s.err /\ errAt' = s.errAt

Holds(s) ==
    /\ structs = s.structs /\ functions = s.functions /\ globals = s.globals
    /\ initvals = s.initvals /\ tag = s.tag /\ sno = s.sno /\ varno = s.varno
    /\ funcno = s.funcno /\ exprs = s.exprs /\ envs = s.envs /\ cnt = s.cnt
    /\ seen = s.seen /\ bound = s.bound /\ resolved = s.resolved
    /\ err = s.err /\ errAt = s.errAt

Paths == Range(PathsOf(prog))
NodeAt(p) == NodeIn(prog, p)

\* The tree as the parser hands it over: junk is what an unset var_no reads as.
Parsed(items, junk) ==
    LET ps == Range(PathsOf(items))
        sites == {<<p, 1>> : p \in {q \in ps : NodeIn(items, q).expr.k # "null"}} \cup
                 {<<p, 2>> : p \in {q \in ps : NodeIn(items, q).expr2.k # "null"}}
    IN  [structs |-> <<>>, functions |-> <<>>, globals |-> <<>>, initvals |-> <<>>,
         f |-> EmptyFunction,
         tag |-> [p \in ps |-> NodeIn(items, p).ty],
         sno |-> [p \in ps |-> 0],
         varno |-> [p \in ps |-> junk],
         funcno |-> [p \in ps |-> junk],
         exprs |-> [x \in sites |->
                      IF x[2] = 1 THEN NodeIn(items, x[1]).expr ELSE NodeIn(items, x[1]).expr2],
         envs |-> <<>>,
         cnt |-> [x \in sites |-> 0],
         seen |-> <<>>, bound |-> <<>>, resolved |-> <<>>,
         err |-> "none", errAt |-> <<>>]

\* The parser calls jaf_define_struct on every struct specifier that has a
\* member list, in textual order; the specifiers nested in a member list are
\* reached by jaf_define_struct itself.
IsStructSpec(n, p) ==
    /\ n.kind = "DECLARATION" /\ n.ty = "struct" /\ n.hasdef
    /\ \A i \in DOMAIN p : ~IsDefSel(p[i])
RECURSIVE ParseDefs(_, _, _, _)
ParseDefs(s, items, ps, i) ==
    IF i > Len(ps) THEN s
    ELSE LET n == NodeIn(items, ps[i])
         IN  ParseDefs(IF IsStructSpec(n, ps[i]) THEN jaf_define_struct(s, n, ps[i]) ELSE s,
                       items, ps, i + 1)
AfterParse(items, junk) == ParseDefs(Parsed(items, junk), items, PathsOf(items), 1)

HasUnnamedLocal(items) ==
    \E p \in Range(PathsOf(items)) :
        /\ Len(p) > 1 /\ NodeIn(items, p).kind = "DECLARATION" /\ NodeIn(items, p).name = ""
        /\ \A i \in DOMAIN p : p[i] < 10
Junk(items) == IF HasUnnamedLocal(items) THEN -1..MaxJunk ELSE {0}

Programs == BodyPrograms \cup GlobalPrograms \cup TypePrograms \cup ReturnPrograms

Init ==
    /\ prog \in Programs
    /\ \E junk \in Junk(prog) : \E s \in {AfterParse(prog, junk)} :
          /\ ~Failed(s)
          /\ Holds(s)
    /\ pass = "resolve"
    /\ idx = 1

\* ------------------------------------------------------------ jaf_static_analyze
\* The loop of a pass moves on to the next top-level item, and the pass after
\* the last item hands over to the next pass; a fatal error stops everything.
Advance(s, next) ==
    /\ prog' = prog
    /\ IF Failed(s) THEN pass' = pass /\ idx' = idx
       ELSE IF idx = Len(prog) THEN pass' = next /\ idx' = 1
       ELSE pass' = pass /\ idx' = idx + 1

\* pass 1: jaf_resolve_types(ain, block), one item of the top-level block
ResolveStep ==
    /\ pass = "resolve" /\ err = "none"
    /\ \E s \in {resolve_statement_types(Cur, prog[idx], <<idx>>)} :
          Commit(s) /\ Advance(s, "declare")

\* pass 2: jaf_process_declarations(ain, block), one item
DeclareStep ==
    /\ pass = "declare" /\ err = "none"
    /\ \E s \in {jaf_process_declarations(Cur, prog[idx], <<idx>>)} :
          Commit(s) /\ Advance(s, "analyze")

\* pass 3: jaf_analyze_block(&env, block), one item
AnalyzeStep ==
    /\ pass = "analyze" /\ err = "none"
    /\ \E s \in {analyze_statement(Cur, prog[idx], <<idx>>)} :
          Commit(s) /\ Advance(s, "done")

Next == ResolveStep \/ DeclareStep \/ AnalyzeStep
Spec == Init /\ [][Next]_vars

\* ------------------------------------------------------------ the parser's calls
StructName(i) == "S" \o ToString(i)
StructNames == {StructName(i) : i \in 1..MaxNames} \cup {""}
IntMember == Decl("a", "int", "", NoExpr)
SmallMembers ==
    {IntMember}
    \cup {StructDecl("m", n, <<>>) : n \in StructNames}
    \cup {Decl("r", "struct", n, NoExpr) : n \in StructNames \ {""}}
DeepMembers ==
    SmallMembers \cup
    {StructDecl("m", n, <<StructDecl("mm", k, <<>>)>>) : n \in StructNames, k \in StructNames}
StructSpecs ==
    {StructDecl("", n, ms) :
        n \in StructNames,
        ms \in {<<>>} \cup {<<m>> : m \in DeepMembers}
                \cup {<<m, k>> : m \in DeepMembers, k \in SmallMembers}}

InitDefine ==
    /\ prog = <<>>
    /\ Holds(Parsed(<<>>, 0))
    /\ pass = "parse"
    /\ idx = 1

\* The parser has read one more struct specifier and calls jaf_define_struct.
DefineStep ==
    /\ pass = "parse" /\ err = "none"
    /\ \E t \in StructSpecs :
          /\ prog' = <<t>>
          /\ \E s \in {jaf_define_struct([Cur EXCEPT !.sno = <<>>], t, <<1>>)} : Commit(s)
    /\ UNCHANGED <<pass, idx>>

NextDefine == DefineStep
SpecDefine == InitDefine /\ [][NextDefine]_vars

\* ------------------------------------------------------------ what the claims speak of
Terminated == err # "none" \/ pass = "done"
IsTopFunction(i) == prog[i].kind = "FUNDECL" /\ prog[i].name # ""
IsTopGlobal(i) == prog[i].kind = "DECLARATION" /\ prog[i].name # ""
\* the Declaration Processor is through with the top-level item i
Declared(i) == (pass = "declare" /\ idx > i) \/ pass \in {"analyze", "done"}
\* the Analyzer is through with the top-level item i
Analyzed(i) == (pass = "analyze" /\ idx > i) \/ pass = "done"
Before(p, q) == IndexOf(PathsOf(prog), p) < IndexOf(PathsOf(prog), q)
InBody(p) == Len(p) > 1 /\ \A k \in 2..Len(p) : p[k] < 10

\* The declarations of the top-level function i that declare a variable, in
\* declaration order: its parameters, then the named declarations of its body
\* in textual order.
DeclaresVariable(p) ==
    /\ Len(p) > 1
    /\ NodeAt(p).kind = "DECLARATION" /\ NodeAt(p).name # ""
    /\ \A k \in DOMAIN p : ~IsDefSel(p[k])
DeclarationOrder(i) == SelectSeq(PreOrder(prog[i], <<i>>), DeclaresVariable)

\* C1: a registered function's variable list is its parameters followed by
\* the named locals of its body in depth-first, left-to-right declaration
\* order; each declaration's var_no is its position in that list, so the
\* slots are 0..nr_vars-1 without gap or repeat and the parameters are the
\* prefix 0..nr_args-1.
SlotsInDeclarationOrder ==
    \A i \in DOMAIN prog :
        (pass # "parse" /\ IsTopFunction(i) /\ Declared(i)) =>
            LET d == DeclarationOrder(i)
                fn == functions[funcno[<<i>>] + 1]
            IN  /\ funcno[<<i>>] \in 0..(Len(functions) - 1)
                /\ fn.name = prog[i].name
                /\ fn.nr_args = Len(prog[i].params)
                /\ fn.nr_vars = Len(d) /\ Len(fn.vars) = Len(d)
                /\ \A k \in DOMAIN d :
                      /\ varno[d[k]] = k - 1
                      /\ fn.vars[k].name = Encode(NodeAt(d[k]).name)
                      /\ k <= fn.nr_args => d[k] = <<i, ParamSel(k)>>
                /\ {varno[d[k]] : k \in DOMAIN d} = 0..(fn.nr_vars - 1)

\* a function with a parameter and locals in a for-init list, in a block
\* nested in a loop, and in sibling positions has been registered
SlotsWitness ==
    \E i \in DOMAIN prog :
        /\ pass # "parse" /\ IsTopFunction(i) /\ Declared(i)
        /\ Len(prog[i].params) = 1
        /\ Len(DeclarationOrder(i)) >= 4
        /\ \E p \in Range(DeclarationOrder(i)) :
              Len(p) >= 4 /\ NodeAt(SubSeq(p, 1, Len(p) - 1)).kind = "BLOCK"
        /\ \E p \in Range(DeclarationOrder(i)) : Len(p) = 2 /\ p[2] = 2

\* C2: every typedef-name that resolve_typedef was called on: when its name
\* is registered in the type table the reference is retagged struct with the
\* id of that entry and no error is raised for it; when it is not, the
\* analysis failed there with UnresolvedTypedef and the tag is unchanged.
TypedefResolution ==
    (pass # "parse") =>
    \A k \in DOMAIN resolved :
        LET p == resolved[k]
            u == Encode(NodeAt(p).tname)
            hits == {j \in DOMAIN structs : structs[j].name = u}
        IN  IF hits # {}
            THEN /\ tag[p] = "struct"
                 /\ \E j \in hits : sno[p] = j - 1
                 /\ ~(err = "UnresolvedTypedef" /\ errAt = p)
            ELSE /\ err = "UnresolvedTypedef" /\ errAt = p
                 /\ tag[p] = "typedef"

\* C3: once the Type Resolver pass has completed without error, no type
\* reference of the tree (declaration, parameter, struct member, function
\* return type) carries the typedef-name tag.
NoTypedefAfterResolve ==
    (pass \in {"declare", "analyze", "done"}) => \A p \in Paths : tag[p] # "typedef"

\* C4: when the analysis has ended, normally or by a fatal error, no scope
\* record is still allocated.
ScopesReleased == Terminated => envs = <<>>

\* C5: every binding analyze_local_declaration registered refers to the slot
\* the Declaration Processor created for that same declaration.
BindingsUseAssignedSlot ==
    \A k \in DOMAIN bound :
        LET b == bound[k]
            i == b.decl[1]
            d == DeclarationOrder(i)
        IN  /\ b.f = funcno[<<i>>]
            /\ \E j \in DOMAIN d :
                  /\ d[j] = b.decl /\ b.v = j - 1
                  /\ functions[b.f + 1].vars[j].name = Encode(NodeAt(b.decl).name)

\* C6: the chain of binding lists seen at a statement holds exactly the
\* parameters of the function and the locals declared earlier in a block
\* that encloses the statement.
IsBlock(p) == NodeAt(p).kind \in {"FUNDECL", "COMPOUND", "SWITCH", "BLOCK"}
\* the innermost block that encloses the node at p
ScopeOf(p) ==
    LET ks == {k \in 1..(Len(p) - 1) : IsBlock(SubSeq(p, 1, k))}
    IN  SubSeq(p, 1, CHOOSE k \in ks : \A j \in ks : j <= k)
VisibleFrom(p) ==
    LET d == DeclarationOrder(p[1])
    IN  {[f |-> funcno[<<p[1]>>], v |-> j - 1] : j \in
            {j \in DOMAIN d :
                \/ j <= Len(prog[p[1]].params)
                \/ /\ Before(d[j], p)
                   /\ IsPrefix(ScopeOf(d[j]), p) /\ ScopeOf(d[j]) # p}}
ScopeVisibility ==
    \A p \in DOMAIN seen : seen[p] = IF Len(p) = 1 THEN {} ELSE VisibleFrom(p)

\* C7: a top-level global with an initializer: once analyzed, exactly one
\* initial-value record carries the slot index the Declaration Processor gave
\* that global, and it holds the folded literal; a folded initializer that is
\* no int, float or string literal fails with InitvalNotConstant, and no
\* failure leaves a record for that global.
GlobalSlot(i) == Cardinality({j \in 1..(i - 1) : IsTopGlobal(j)})
IsLiteral(e) == e.k \in {"int", "float", "string"}
InitvalsOf(i) == {k \in DOMAIN initvals : initvals[k].global_index = GlobalSlot(i)}
GlobalInitializers ==
    \A i \in DOMAIN prog :
        (pass # "parse" /\ IsTopGlobal(i) /\ prog[i].expr.k # "null") =>
            LET folded == jaf_simplify(prog[i].expr)
                top == [Cur EXCEPT !.envs = <<>>]
                typed == /\ jaf_derive_types(top, prog[i].expr) # "ERROR"
                         /\ jaf_check_type(top, folded, prog[i].ty)
                failedHere == pass = "analyze" /\ idx = i /\ err # "none"
            IN  /\ Analyzed(i) =>
                      /\ typed /\ IsLiteral(folded)
                      /\ exprs[<< <<i>>, 1 >>] = folded
                      /\ Cardinality(InitvalsOf(i)) = 1
                      /\ \A k \in InitvalsOf(i) :
                            /\ initvals[k].data_type =
                                  jaf_to_ain_data_type(folded.k)
                            /\ initvals[k].i = folded.i /\ initvals[k].s = folded.s
                /\ ~Analyzed(i) => InitvalsOf(i) = {}
                /\ failedHere =>
                      /\ err = "InitvalNotConstant" <=> (typed /\ ~IsLiteral(folded))
                      /\ err = "TypeMismatch" =>
                            jaf_derive_types(top, prog[i].expr) # "ERROR"
                /\ (pass = "analyze" /\ idx = i) => (err \in {"none", "InitvalNotConstant",
                                                              "TypeMismatch", "DeriveTypesError"})

\* `int x = 1 + 2;` declared after another global and a function: the record
\* on x's slot holds 3
GlobalInitWitness ==
    \E i \in DOMAIN prog :
        /\ pass # "parse" /\ IsTopGlobal(i) /\ Analyzed(i)
        /\ prog[i].expr = EAdd(EInt(1), EInt(2))
        /\ GlobalSlot(i) > 0 /\ GlobalSlot(i) # i - 1
        /\ \E k \in InitvalsOf(i) : initvals[k].i = 3 /\ initvals[k].data_type = "AIN_INT"

\* a global whose initializer folds to no literal was refused
GlobalInitRefusedWitness ==
    \E i \in DOMAIN prog :
        /\ pass = "analyze" /\ idx = i /\ err = "InitvalNotConstant"
        /\ IsTopGlobal(i) /\ InitvalsOf(i) = {}

\* the function declarations inside the body of the top-level function i, in
\* textual order
IsNestedFunction(p) == InBody(p) /\ NodeAt(p).kind = "FUNDECL"
NestedIn(i) == SelectSeq(PreOrder(prog[i], <<i>>), IsNestedFunction)
HasNested(i) == IsTopFunction(i) /\ NestedIn(i) # <<>>
NoAnalyzerStep ==
    /\ pass \notin {"analyze", "done"}
    /\ seen = <<>> /\ bound = <<>> /\ initvals = <<>> /\ envs = <<>>
    /\ \A x \in DOMAIN cnt : cnt[x] = 0
NotRegistered(i) ==
    /\ ~Declared(i)
    /\ \A k \in DOMAIN functions : functions[k].name # prog[i].name

\* C8 as claimed: a function with a nested function declaration is never
\* registered, no Analyzer step runs, and the analysis ends with
\* NestedFunctionsNotSupported raised in the Declaration Processor pass.
NestedAlwaysRejected ==
    \A i \in DOMAIN prog :
        (pass # "parse" /\ HasNested(i)) =>
            /\ NoAnalyzerStep /\ NotRegistered(i)
            /\ Terminated => (err = "NestedFunctionsNotSupported" /\ pass = "declare")

\* C8, amended: a function with a nested function declaration is never
\* registered and no Analyzer step runs; the analysis fails, with
\* NestedFunctionsNotSupported raised at the first nested declaration while
\* the Declaration Processor is at that function, unless another fatal error
\* was raised earlier: in the Type Resolver pass, at an earlier top-level
\* declaration, or at a type or declaration of the function that precedes
\* the nested declaration.
NestedRejected ==
    \A i \in DOMAIN prog :
        (pass # "parse" /\ HasNested(i)) =>
            /\ NoAnalyzerStep /\ NotRegistered(i)
            /\ err # "none" =>
                  \/ /\ err = "NestedFunctionsNotSupported"
                     /\ pass = "declare" /\ idx <= i
                     /\ errAt = NestedIn(idx)[1]
                  \/ /\ err # "NestedFunctionsNotSupported"
                     /\ \/ pass = "resolve"
                        \/ pass = "declare" /\ idx < i
                        \/ pass = "declare" /\ idx = i /\ Before(errAt, NestedIn(i)[1])

\* a function declaration in the for-init list of a loop nested in the
\* function's body was rejected
NestedWitness ==
    /\ pass = "declare" /\ err = "NestedFunctionsNotSupported"
    /\ HasNested(idx) /\ errAt = NestedIn(idx)[1]
    /\ Len(errAt) >= 4 /\ NodeAt(SubSeq(errAt, 1, Len(errAt) - 1)).kind = "BLOCK"

\* C10: when the analysis completes without error every expression of the
\* tree was derived and replaced by its simplified form exactly once.
ExpressionsAnalyzedOnce ==
    (pass = "done" /\ err = "none") =>
        \A x \in DOMAIN cnt :
            /\ cnt[x] = 1
            /\ exprs[x] = jaf_simplify(IF x[2] = 1 THEN NodeAt(x[1]).expr
                                       ELSE NodeAt(x[1]).expr2)

\* C9: the struct specifiers a call of jaf_define_struct reaches, in textual
\* order: the specifier itself, then the struct-typed members of its list
Has(tbl, name) == \E k \in DOMAIN tbl : tbl[k].name = Encode(name)
NamesUnique(tbl) == \A j, k \in DOMAIN tbl : tbl[j].name = tbl[k].name => j = k
AddedNames(old, new) == [k \in 1..(Len(new) - Len(old)) |-> new[Len(old) + k].name]

\* C9: one call of jaf_define_struct keeps the names of the type table
\* unique and its ids distinct; a call on a name already in the table fails
\* with DuplicateDefinition and one without a name with
\* AnonymousNotSupported, adding nothing; a nested specifier that repeats a
\* name (of the table, of the enclosing struct, of an earlier member) or has
\* none fails the same way and leaves exactly the entries registered before
\* it; on success the struct's own name is registered first, then the
\* nested ones in order, each specifier getting the id of its entry.
DefineStructCall ==
    \A ord \in {SelectSeq(PreOrder(prog'[1], <<1>>),
                          LAMBDA p : NodeIn(prog', p).ty = "struct")} :
    \A nodes \in {[k \in DOMAIN ord |-> NodeIn(prog', ord[k])]} :
    \A names \in {[k \in DOMAIN ord |-> Encode(nodes[k].tname)]} :
    \A added \in {AddedNames(structs, structs')} :
    \A at \in {IF errAt' \in Range(ord) THEN IndexOf(ord, errAt') ELSE Len(ord) + 1} :
        /\ NamesUnique(structs')
        /\ Len(structs') >= Len(structs)
        /\ SubSeq(structs', 1, Len(structs)) = structs
        /\ nodes[1].tname = "" => err' = "AnonymousNotSupported" /\ structs' = structs
        /\ (nodes[1].tname # "" /\ Has(structs, nodes[1].tname)) =>
              err' = "DuplicateDefinition" /\ structs' = structs
        /\ err' = "DuplicateDefinition" =>
              /\ at <= Len(ord)
              /\ nodes[at].tname # ""
              /\ Has(structs', nodes[at].tname)
              /\ added = SubSeq(names, 1, at - 1)
        /\ err' = "AnonymousNotSupported" =>
              /\ at <= Len(ord)
              /\ nodes[at].tname = ""
              /\ added = SubSeq(names, 1, at - 1)
        /\ err' = "none" =>
              /\ added = names
              /\ \A k \in DOMAIN ord : sno'[ord[k]] = Len(structs) + k - 1
        /\ \A p \in DOMAIN sno' :
              structs'[sno'[p] + 1].name = Encode(NodeIn(prog', p).tname)
        /\ (\A k \in DOMAIN ord : nodes[k].hasdef) =>
              (err' = "none" <=>
                  /\ \A k \in DOMAIN ord : nodes[k].tname # "" /\ ~Has(structs, nodes[k].tname)
                  /\ \A j, k \in DOMAIN ord : names[j] = names[k] => j = k)
StructNamesUnique == [][pass = "parse" => DefineStructCall]_vars

\* a specifier nested two levels deep repeated the name of the struct that
\* encloses it and was refused, after the enclosing names were registered
StructWitness ==
    /\ pass = "parse" /\ err = "DuplicateDefinition"
    /\ Len(errAt) = 3 /\ Len(structs) >= 3
    /\ NodeAt(errAt).tname = prog[1].tname
====
